---- MODULE Spec2Model ----
(***************************************************************************)
(* File Comparator: the comparison engine of script.js (and of its compat  *)
(* build with the XML record path) and of xmlFormatter.js.                 *)
(*                                                                         *)
(* A text is a sequence of one-character strings.  A line is a text        *)
(* without line terminators once it has been split.                        *)
(***************************************************************************)
EXTENDS Integers, Sequences, FiniteSets, TLC

VARIABLES
    \* the page
    inputA,             \* value of the textarea #inputA
    inputB,             \* value of the textarea #inputB
    ignoreOrderToggle,  \* the checkboxes
    trimTrailing,
    collapseWS,
    caseSensitive,
    XMLFmt,             \* TRUE when xmlFormatter.js has set window.XMLFmt
    summary,            \* what is rendered in #summary
    details,            \* what is rendered in #details
    \* unifiedDiff while it runs
    pc,                 \* "idle", "loop" (inside the while loop of unifiedDiff),
                        \* "done", "threw" (an Error left the handler)
    A, B,               \* the two line arrays
    common,             \* lcs(A, B)
    i, j, k,            \* the cursors over A, B and common (0-based)
    cur,                \* the open hunk, or NoHunk
    hunks,              \* the hunks pushed
    \* canonicalizeRow on its own
    rowIn,      \* canonicalizeRow: the argument s
    rowOpts,    \* canonicalizeRow: the options object (fields may be absent)
    rowOut,     \* canonicalizeRow: the value returned (empty before the call)
    rowBy,      \* which build's canonicalizeRow ran: "none", "script", "compat"
    rowOut2,    \* the value returned for canonicalizeRow(rowOut, rowOpts)
    rowCalls    \* how many of the two calls have returned

pageVars == <<inputA, inputB, ignoreOrderToggle, trimTrailing, collapseWS,
              caseSensitive, XMLFmt>>

outVars == <<summary, details>>

diffVars == <<pc, A, B, common, i, j, k, cur, hunks>>

canonVars == <<rowIn, rowOpts, rowOut, rowBy, rowOut2, rowCalls>>

vars == <<inputA, inputB, ignoreOrderToggle, trimTrailing, collapseWS,
          caseSensitive, XMLFmt, summary, details,
          pc, A, B, common, i, j, k, cur, hunks,
          rowIn, rowOpts, rowOut, rowBy, rowOut2, rowCalls>>

(***************************************************************************)
(* Bounds.                                                                 *)
(***************************************************************************)
MaxRowLen == 4

MaxDiffLines == 3

MaxBagLines == 3

MaxRecords == 2

MaxNewlineLines == 2

(***************************************************************************)
(* Sequence helpers.                                                       *)
(***************************************************************************)
SeqsUpTo(S, n) == UNION {[1..m -> S] : m \in 0..n}

Last(s) == s[Len(s)]

Front(s) == SubSeq(s, 1, Len(s) - 1)

\* <<1, ..., n>>
UpTo(n) == [m \in 1..n |-> m]

Min(m, n) == IF m <= n THEN m ELSE n

Max(m, n) == IF m >= n THEN m ELSE n

(***************************************************************************)
(* Characters.                                                             *)
(***************************************************************************)
SP == " "
TAB == "\t"
CR == "\r"
LF == "\n"

\* the character class [ \t]
IsHSpace(c) == c \in {SP, TAB}

\* the character class \s (restricted to the characters of the model)
IsSpace(c) == c \in {SP, TAB, CR, LF}

LowerLetters ==
    <<"a", "b", "c", "d", "e", "f", "g", "h", "i", "j", "k", "l", "m",
      "n", "o", "p", "q", "r", "s", "t", "u", "v", "w", "x", "y", "z">>

UpperLetters ==
    <<"A", "B", "C", "D", "E", "F", "G", "H", "I", "J", "K", "L", "M",
      "N", "O", "P", "Q", "R", "S", "T", "U", "V", "W", "X", "Y", "Z">>

Digits == <<"0", "1", "2", "3", "4", "5", "6", "7", "8", "9">>

Range(f) == {f[x] : x \in DOMAIN f}

IndexOf(seq, c) == CHOOSE n \in 1..Len(seq) : seq[n] = c

\* String.prototype.toLowerCase on one character
LowerChar(c) ==
    IF c \in Range(UpperLetters) THEN LowerLetters[IndexOf(UpperLetters, c)] ELSE c

toLowerCase(s) == [n \in 1..Len(s) |-> LowerChar(s[n])]

(***************************************************************************)
(* s.replace(/\r\n?/g, '\n'): every carriage return becomes a line feed,   *)
(* and a line feed right after a carriage return belongs to its match.     *)
(***************************************************************************)
NormalizeNewlines(s) ==
    LET Kept(n) == ~(s[n] = LF /\ n > 1 /\ s[n - 1] = CR)
        at == SelectSeq(UpTo(Len(s)), Kept)
    IN  [n \in 1..Len(at) |-> IF s[at[n]] = CR THEN LF ELSE s[at[n]]]

(***************************************************************************)
(* s.replace(/[ \t]+$/g, ''): no m flag, so $ is the end of the string.    *)
(***************************************************************************)
\* the same with the quantifier lost, /[ \t]$/: one character is removed
TrimTrailingHSpaceOnce(s) ==
    IF s # <<>> /\ IsHSpace(Last(s)) THEN Front(s) ELSE s

TrimTrailingHSpace(s) ==
    LET Solid(n) == ~IsHSpace(s[n])
        at == SelectSeq(UpTo(Len(s)), Solid)
    IN  IF at = <<>> THEN <<>> ELSE SubSeq(s, 1, Last(at))

(***************************************************************************)
(* s.replace(/[ \t]+/g, ' '): every maximal run becomes one space.         *)
(***************************************************************************)
CollapseHSpace(s) ==
    LET Kept(n) == ~(IsHSpace(s[n]) /\ n > 1 /\ IsHSpace(s[n - 1]))
        at == SelectSeq(UpTo(Len(s)), Kept)
    IN  [n \in 1..Len(at) |-> IF IsHSpace(s[at[n]]) THEN SP ELSE s[at[n]]]

(***************************************************************************)
(* Options objects: a function from the fields that are set to booleans.   *)
(***************************************************************************)
OptionFields == {"trim", "collapseWhitespace", "caseSensitive"}

OptionObjects == UNION {[F -> BOOLEAN] : F \in SUBSET OptionFields}

Has(o, f) == f \in DOMAIN o

\* the three steps after the options have been read
CanonicalizeWith(s, trim, collapseWhitespace, caseSens) ==
    LET n1 == NormalizeNewlines(s)
        n2 == IF trim THEN TrimTrailingHSpace(n1) ELSE n1
        n3 == IF collapseWhitespace THEN CollapseHSpace(n2) ELSE n2
    IN  IF ~caseSens THEN toLowerCase(n3) ELSE n3

\* script.js: destructuring defaults apply to the fields that are absent
canonicalizeRow(s, opts) ==
    CanonicalizeWith(s,
        IF Has(opts, "trim") THEN opts.trim ELSE TRUE,
        IF Has(opts, "collapseWhitespace") THEN opts.collapseWhitespace ELSE FALSE,
        IF Has(opts, "caseSensitive") THEN opts.caseSensitive ELSE TRUE)

\* compat build: opts.trim !== false, !!opts.collapseWhitespace, !!opts.caseSensitive
canonicalizeRowCompat(s, opts) ==
    CanonicalizeWith(s,
        ~(Has(opts, "trim") /\ opts.trim = FALSE),
        Has(opts, "collapseWhitespace") /\ opts.collapseWhitespace,
        Has(opts, "caseSensitive") /\ opts.caseSensitive)

(***************************************************************************)
(* String.prototype.localeCompare under the root collation: strings are    *)
(* ordered by their letters regardless of case first (white space, then    *)
(* punctuation, symbols, digits, letters), and a lower-case letter comes   *)
(* before its upper-case form only when nothing else differs.              *)
(***************************************************************************)
CollationOrder ==
    <<TAB, LF, CR, SP, "\"", "@", "/", "\\", "&", "#", "<", "=", ">", "|">>
    \o Digits \o LowerLetters

PrimaryWeight(c) == IndexOf(CollationOrder, LowerChar(c))

Sign(n) == IF n < 0 THEN -1 ELSE IF n > 0 THEN 1 ELSE 0

ComparePrimary(x, y) ==
    LET Differs(n) == PrimaryWeight(x[n]) # PrimaryWeight(y[n])
        at == SelectSeq(UpTo(Min(Len(x), Len(y))), Differs)
    IN  IF at = <<>> THEN Sign(Len(x) - Len(y))
        ELSE IF PrimaryWeight(x[at[1]]) < PrimaryWeight(y[at[1]]) THEN -1 ELSE 1

\* x and y have the same letters: the first difference of case decides
CompareCase(x, y) ==
    LET Differs(n) == x[n] # y[n]
        at == SelectSeq(UpTo(Min(Len(x), Len(y))), Differs)
    IN  IF at = <<>> THEN 0
        ELSE IF LowerChar(x[at[1]]) = x[at[1]] THEN -1 ELSE 1

\* the primary comparison decides unless it is a tie
BreakTie(p, x, y) == IF p # 0 THEN p ELSE CompareCase(x, y)

localeCompare(x, y) == BreakTie(ComparePrimary(x, y), x, y)

Abs(n) == IF n < 0 THEN -n ELSE n

(***************************************************************************)
(* Array.prototype.sort with the comparators of diffBags.  The sort is     *)
(* stable: an element goes after the elements that do not compare greater. *)
(***************************************************************************)
\* (x, y) => x.value.localeCompare(y.value)
ByValue(x, y) == localeCompare(x.value, y.value)

\* (x, y) => |y.delta| - |x.delta|, then x.value.localeCompare(y.value)
ByDeltaThenValue(x, y) ==
    IF Abs(y.delta) # Abs(x.delta)
    THEN Abs(y.delta) - Abs(x.delta)
    ELSE localeCompare(x.value, y.value)

Comparator(kind, x, y) ==
    IF kind = "delta" THEN ByDeltaThenValue(x, y) ELSE ByValue(x, y)

RECURSIVE InsertSorted(_, _, _)
InsertSorted(kind, e, sorted) ==
    IF sorted = <<>> THEN <<e>>
    ELSE IF Comparator(kind, e, Head(sorted)) < 0 THEN <<e>> \o sorted
    ELSE <<Head(sorted)>> \o InsertSorted(kind, e, Tail(sorted))

\* the array is left as it is: the sort call forgotten
ArrayUnsorted(kind, arr) == arr

RECURSIVE ArraySort(_, _)
ArraySort(kind, arr) ==
    IF arr = <<>> THEN <<>>
    ELSE InsertSorted(kind, Last(arr), ArraySort(kind, Front(arr)))

(***************************************************************************)
(* Bags.  A Map is the sequence of its entries in insertion order.         *)
(***************************************************************************)
MapKeys(bag) == [n \in 1..Len(bag) |-> bag[n].value]

MapHas(bag, key) == \E n \in 1..Len(bag) : bag[n].value = key

\* bag.get(k) || 0
MapGet(bag, key) ==
    IF MapHas(bag, key)
    THEN bag[CHOOSE n \in 1..Len(bag) : bag[n].value = key].count
    ELSE 0

\* bag.set(k, v): an existing key keeps its place
MapSet(bag, key, v) ==
    IF MapHas(bag, key)
    THEN [n \in 1..Len(bag) |->
            IF bag[n].value = key THEN [value |-> key, count |-> v] ELSE bag[n]]
    ELSE Append(bag, [value |-> key, count |-> v])

\* bag.set(k, (bag.get(k) || 0) + 1)
MapIncrement(bag, key) == MapSet(bag, key, MapGet(bag, key) + 1)

\* toBag of the compat build, which is the one the page with the XML path loads
RECURSIVE toBag(_, _)
toBag(strings, opts) ==
    IF strings = <<>> THEN <<>>
    ELSE MapIncrement(toBag(Front(strings), opts),
                      canonicalizeRowCompat(Last(strings), opts))

\* new Set([...bagA.keys(), ...bagB.keys()]) in iteration order
RECURSIVE Dedup(_)
Dedup(s) ==
    IF s = <<>> THEN <<>>
    ELSE LET d == Dedup(Front(s))
         IN  IF \E n \in 1..Len(d) : d[n] = Last(s) THEN d ELSE Append(d, Last(s))

UnionKeys(bagA, bagB) == Dedup(MapKeys(bagA) \o MapKeys(bagB))

\* the same with the last test lost: a key that is in both bags is pushed on
\* freqDelta whatever its counts
RECURSIVE ClassifyLoose(_, _, _)
ClassifyLoose(keys, bagA, bagB) ==
    IF keys = <<>> THEN [onlyInA |-> <<>>, onlyInB |-> <<>>, freqDelta |-> <<>>]
    ELSE LET r == ClassifyLoose(Front(keys), bagA, bagB)
             key == Last(keys)
             a == MapGet(bagA, key)
             b == MapGet(bagB, key)
         IN  IF a # 0 /\ b = 0
             THEN [r EXCEPT !.onlyInA = Append(@, [value |-> key, count |-> a])]
             ELSE IF a = 0 /\ b # 0
             THEN [r EXCEPT !.onlyInB = Append(@, [value |-> key, count |-> b])]
             ELSE [r EXCEPT !.freqDelta =
                        Append(@, [value |-> key, a |-> a, b |-> b, delta |-> a - b])]

\* the three pushes of the loop of diffBags, for the keys in order
RECURSIVE Classify(_, _, _)
Classify(keys, bagA, bagB) ==
    IF keys = <<>> THEN [onlyInA |-> <<>>, onlyInB |-> <<>>, freqDelta |-> <<>>]
    ELSE LET r == Classify(Front(keys), bagA, bagB)
             key == Last(keys)
             a == MapGet(bagA, key)
             b == MapGet(bagB, key)
         IN  IF a # 0 /\ b = 0
             THEN [r EXCEPT !.onlyInA = Append(@, [value |-> key, count |-> a])]
             ELSE IF a = 0 /\ b # 0
             THEN [r EXCEPT !.onlyInB = Append(@, [value |-> key, count |-> b])]
             ELSE IF a # b
             THEN [r EXCEPT !.freqDelta =
                        Append(@, [value |-> key, a |-> a, b |-> b, delta |-> a - b])]
             ELSE r

\* the three sort calls at the end of diffBags
SortLists(r) ==
    [onlyInA |-> ArraySort("value", r.onlyInA),
     onlyInB |-> ArraySort("value", r.onlyInB),
     freqDelta |-> ArraySort("delta", r.freqDelta)]

diffBags(bagA, bagB) == SortLists(Classify(UnionKeys(bagA, bagB), bagA, bagB))

(***************************************************************************)
(* Splitting a text into lines.                                            *)
(***************************************************************************)
\* the pieces of t between the separators that end at the indices of ends, a
\* separator being 2 long where crToo holds and a carriage return precedes it
Pieces(t, ends, crToo) ==
    [m \in 1..(Len(ends) + 1) |->
        SubSeq(t,
               IF m = 1 THEN 1 ELSE ends[m - 1] + 1,
               IF m = Len(ends) + 1 THEN Len(t)
               ELSE IF /\ crToo
                       /\ ends[m] - 1 >= (IF m = 1 THEN 1 ELSE ends[m - 1] + 1)
                       /\ t[ends[m] - 1] = CR
                    THEN ends[m] - 2
                    ELSE ends[m] - 1)]

LineFeeds(t) ==
    LET IsLF(n) == t[n] = LF
    IN  SelectSeq(UpTo(Len(t)), IsLF)

\* t.split('\n'): the pieces between the line feeds, at least one piece
SplitLF(t) == Pieces(t, LineFeeds(t), FALSE)

\* t.split(/\r?\n/): as SplitLF, a carriage return right before the line
\* feed belongs to the separator
SplitCRLF(t) == Pieces(t, LineFeeds(t), TRUE)

\* prune: a last element that is empty is dropped
prune(arr) ==
    IF Len(arr) # 0 /\ Last(arr) = <<>> THEN Front(arr) ELSE arr

(***************************************************************************)
(* compareTextAsMultisets                                                  *)
(***************************************************************************)
\* the same with identical computed from the two only-in lists alone
ReportOfPresence(totalA, totalB, uniqueA, uniqueB, diff) ==
    [kind |-> "multiset",
     summary |->
        [totalA |-> totalA, totalB |-> totalB,
         uniqueA |-> uniqueA, uniqueB |-> uniqueB,
         onlyInA |-> Len(diff.onlyInA), onlyInB |-> Len(diff.onlyInB),
         freqDelta |-> Len(diff.freqDelta),
         identical |-> Len(diff.onlyInA) = 0 /\ Len(diff.onlyInB) = 0],
     details |-> diff]

\* the object both comparisons return, diff being diffBags(bagA, bagB)
ReportOf(totalA, totalB, uniqueA, uniqueB, diff) ==
    [kind |-> "multiset",
     summary |->
        [totalA |-> totalA, totalB |-> totalB,
         uniqueA |-> uniqueA, uniqueB |-> uniqueB,
         onlyInA |-> Len(diff.onlyInA), onlyInB |-> Len(diff.onlyInB),
         freqDelta |-> Len(diff.freqDelta),
         identical |-> /\ Len(diff.onlyInA) = 0
                       /\ Len(diff.onlyInB) = 0
                       /\ Len(diff.freqDelta) = 0],
     details |-> diff]

MultisetReport(totalA, totalB, bagA, bagB) ==
    ReportOf(totalA, totalB, Len(bagA), Len(bagB), diffBags(bagA, bagB))

\* the part of compareTextAsMultisets and of compareXmlRecordsAsMultisets from
\* the two arrays of strings on
CompareArrays(arrA, arrB, opts) ==
    MultisetReport(Len(arrA), Len(arrB), toBag(arrA, opts), toBag(arrB, opts))

compareTextAsMultisets(textA, textB, opts) ==
    CompareArrays(prune(SplitCRLF(textA)), prune(SplitCRLF(textB)), opts)

(***************************************************************************)
(* DOMParser.parseFromString(text, 'application/xml'), for the documents   *)
(* of the model: one root element, elements with double-quoted attributes, *)
(* empty-element tags, character data; no entity references, comments,     *)
(* processing instructions or namespaces.  A document is the sequence of   *)
(* its nodes in document order, each with the index of its parent.         *)
(***************************************************************************)
NameChars == Range(LowerLetters) \cup Range(UpperLetters) \cup Range(Digits)

\* the first index from p on where s has the character c, 0 when there is none
IndexFrom(s, p, c) ==
    LET Hit(n) == n >= p /\ s[n] = c
        at == SelectSeq(UpTo(Len(s)), Hit)
    IN  IF at = <<>> THEN 0 ELSE at[1]

RECURSIVE SkipSpace(_)
SkipSpace(s) == IF s # <<>> /\ IsSpace(Head(s)) THEN SkipSpace(Tail(s)) ELSE s

RECURSIVE DropTrailingSpace(_)
DropTrailingSpace(s) ==
    IF s # <<>> /\ IsSpace(Last(s)) THEN DropTrailingSpace(Front(s)) ELSE s

IsName(s) == s # <<>> /\ \A n \in 1..Len(s) : s[n] \in NameChars

IsBlank(s) == \A n \in 1..Len(s) : IsSpace(s[n])

NameLength(s) ==
    LET Other(n) == s[n] \notin NameChars
        at == SelectSeq(UpTo(Len(s)), Other)
    IN  IF at = <<>> THEN Len(s) ELSE at[1] - 1

Malformed == [ok |-> FALSE]

\* the attributes of a start tag, in source order
RECURSIVE ParseAttributes(_)
ParseAttributes(s) ==
    LET t == SkipSpace(s)
    IN  IF t = <<>> THEN [ok |-> TRUE, attrs |-> <<>>]
        ELSE IF Len(t) = Len(s) THEN Malformed
        ELSE LET eq == IndexFrom(t, 1, "=")
             IN  IF eq < 2 \/ eq + 1 > Len(t) THEN Malformed
                 ELSE IF ~IsName(SubSeq(t, 1, eq - 1)) \/ t[eq + 1] # "\"" THEN Malformed
                 ELSE LET close == IndexFrom(t, eq + 2, "\"")
                      IN  IF close = 0 THEN Malformed
                          ELSE LET name == SubSeq(t, 1, eq - 1)
                                   value == SubSeq(t, eq + 2, close - 1)
                                   rest == ParseAttributes(SubSeq(t, close + 1, Len(t)))
                               IN  IF ~rest.ok THEN Malformed
                                   ELSE IF \E n \in 1..Len(value) : value[n] \in {"<", "&"}
                                   THEN Malformed
                                   ELSE IF \E n \in 1..Len(rest.attrs) : rest.attrs[n].name = name
                                   THEN Malformed
                                   ELSE [ok |-> TRUE,
                                         attrs |-> <<[name |-> name, value |-> value]>>
                                                   \o rest.attrs]

\* what stands between "<" and ">"
ParseTag(inner) ==
    IF inner = <<>> THEN Malformed
    ELSE IF Head(inner) = "/"
    THEN LET name == DropTrailingSpace(Tail(inner))
         IN  IF IsName(name) THEN [ok |-> TRUE, t |-> "close", name |-> name]
             ELSE Malformed
    ELSE LET empty == Last(inner) = "/"
             body == IF empty THEN Front(inner) ELSE inner
             len == NameLength(body)
         IN  IF len = 0 THEN Malformed
             ELSE LET a == ParseAttributes(SubSeq(body, len + 1, Len(body)))
                  IN  IF ~a.ok THEN Malformed
                      ELSE [ok |-> TRUE, t |-> "open", name |-> SubSeq(body, 1, len),
                            attrs |-> a.attrs, empty |-> empty]

\* a token in front of the tokens of the rest of the text
ConsToken(tok, rest) ==
    IF tok.ok /\ rest.ok
    THEN [ok |-> TRUE, tokens |-> <<tok>> \o rest.tokens]
    ELSE Malformed

TextToken(text) ==
    IF \A n \in 1..Len(text) : text[n] # "&"
    THEN [ok |-> TRUE, t |-> "text", value |-> text]
    ELSE Malformed

RECURSIVE Tokenize(_)
\* s starts with "<" and gt is the index of the first ">" after it
TokenizeTag(s, gt) ==
    IF gt = 0 THEN Malformed
    ELSE ConsToken(ParseTag(SubSeq(s, 2, gt - 1)), Tokenize(SubSeq(s, gt + 1, Len(s))))

\* s starts with character data, which ends at index end
TokenizeText(s, end) ==
    ConsToken(TextToken(SubSeq(s, 1, end)), Tokenize(SubSeq(s, end + 1, Len(s))))

\* the index before the first "<" at index lt, the end of s when lt = 0
TextEnd(s, lt) == IF lt = 0 THEN Len(s) ELSE lt - 1

Tokenize(s) ==
    IF s = <<>> THEN [ok |-> TRUE, tokens |-> <<>>]
    ELSE IF Head(s) = "<" THEN TokenizeTag(s, IndexFrom(s, 2, ">"))
    ELSE TokenizeText(s, TextEnd(s, IndexFrom(s, 1, "<")))

\* the tree built from the tokens; stack holds the indices of the open elements
RECURSIVE BuildTree(_)
BuildTree(tokens) ==
    IF tokens = <<>> THEN [ok |-> TRUE, nodes |-> <<>>, stack |-> <<>>, root |-> FALSE]
    ELSE LET d == BuildTree(Front(tokens))
             tok == Last(tokens)
             top == IF d.stack = <<>> THEN 0 ELSE Last(d.stack)
         IN  IF ~d.ok THEN Malformed
             ELSE IF tok.t = "open"
             THEN IF d.stack = <<>> /\ d.root THEN Malformed
                  ELSE LET node == [type |-> "element", name |-> tok.name,
                                    attrs |-> tok.attrs, value |-> <<>>, parent |-> top]
                           nodes == Append(d.nodes, node)
                       IN  [ok |-> TRUE, nodes |-> nodes, root |-> TRUE,
                            stack |-> IF tok.empty THEN d.stack
                                      ELSE Append(d.stack, Len(nodes))]
             ELSE IF tok.t = "close"
             THEN IF top = 0 THEN Malformed
                  ELSE IF d.nodes[top].name # tok.name THEN Malformed
                  ELSE [d EXCEPT !.stack = Front(@)]
             ELSE IF top = 0
             THEN IF IsBlank(tok.value) THEN d ELSE Malformed
             ELSE [d EXCEPT !.nodes =
                     Append(@, [type |-> "text", name |-> <<"#", "t", "e", "x", "t">>,
                                attrs |-> <<>>, value |-> tok.value, parent |-> top])]

\* the document when every element was closed and there is a root
FinishTree(d) ==
    IF d.ok /\ d.root /\ d.stack = <<>>
    THEN [ok |-> TRUE, nodes |-> d.nodes]
    ELSE Malformed

TreeOf(toks) == IF toks.ok THEN FinishTree(BuildTree(toks.tokens)) ELSE Malformed

\* the document, or ok = FALSE where the parser returns a parsererror document
ParseFromString(text) == TreeOf(Tokenize(text))

\* the document of parseXml, or the Error it throws on a parsererror
ThrowOnError(doc) ==
    IF doc.ok THEN [threw |-> FALSE, nodes |-> doc.nodes] ELSE [threw |-> TRUE]

parseXml(xmlText) == ThrowOnError(ParseFromString(xmlText))

(***************************************************************************)
(* xmlFormatter.js: records to canonical strings.                          *)
(***************************************************************************)
\* the order of UTF-16 code units, which Array.prototype.sort() uses
CodeUnitOrder ==
    <<TAB, LF, CR, SP, "\"", "#", "&", "/">> \o Digits \o <<"<", "=", ">", "@">>
    \o UpperLetters \o <<"\\">> \o LowerLetters \o <<"|">>

CodeUnit(c) == IndexOf(CodeUnitOrder, c)

CodeUnitLess(x, y) ==
    LET Differs(n) == x[n] # y[n]
        at == SelectSeq(UpTo(Min(Len(x), Len(y))), Differs)
    IN  IF at = <<>> THEN Len(x) < Len(y)
        ELSE CodeUnit(x[at[1]]) < CodeUnit(y[at[1]])

RECURSIVE InsertString(_, _)
InsertString(e, sorted) ==
    IF sorted = <<>> THEN <<e>>
    ELSE IF CodeUnitLess(e, Head(sorted)) THEN <<e>> \o sorted
    ELSE <<Head(sorted)>> \o InsertString(e, Tail(sorted))

\* the strings left in the order they were pushed: the sort forgotten
StringsUnsorted(arr) == arr

\* arr.sort() on an array of strings
RECURSIVE SortStrings(_)
SortStrings(arr) ==
    IF arr = <<>> THEN <<>>
    ELSE InsertString(Last(arr), SortStrings(Front(arr)))

\* arr.join(sep)
RECURSIVE Join(_, _)
Join(arr, sep) ==
    IF arr = <<>> THEN <<>>
    ELSE IF Len(arr) = 1 THEN arr[1]
    ELSE Join(Front(arr), sep) \o sep \o Last(arr)

\* JSON.stringify of a string
RECURSIVE JsonEscape(_)
JsonEscape(v) ==
    IF v = <<>> THEN <<>>
    ELSE LET c == Head(v)
             e == CASE c = "\"" -> <<"\\", "\"">>
                    [] c = "\\" -> <<"\\", "\\">>
                    [] c = LF -> <<"\\", "n">>
                    [] c = CR -> <<"\\", "r">>
                    [] c = TAB -> <<"\\", "t">>
                    [] OTHER -> <<c>>
         IN  e \o JsonEscape(Tail(v))

q(v) == <<"\"">> \o JsonEscape(v) \o <<"\"">>

\* t.replace(/\s+/g, ' ')
CollapseSpace(s) ==
    LET Kept(n) == ~(IsSpace(s[n]) /\ n > 1 /\ IsSpace(s[n - 1]))
        at == SelectSeq(UpTo(Len(s)), Kept)
    IN  [n \in 1..Len(at) |-> IF IsSpace(s[at[n]]) THEN SP ELSE s[at[n]]]

\* String.prototype.trim
Trim(s) == DropTrailingSpace(SkipSpace(s))

FlattenDefaults ==
    [includeText |-> TRUE, includeAttributes |-> TRUE,
     ignoreEmptyText |-> TRUE, collapseInnerWhitespace |-> TRUE]

AttrNames(node) == [n \in 1..Len(node.attrs) |-> node.attrs[n].name]

\* node.getAttribute(name)
GetAttribute(node, name) ==
    node.attrs[CHOOSE n \in 1..Len(node.attrs) : node.attrs[n].name = name].value

\* node.childNodes: the indices of the children in document order
RECURSIVE ChildrenFrom(_, _, _)
ChildrenFrom(nodes, parent, from) ==
    IF from > Len(nodes) THEN <<>>
    ELSE (IF nodes[from].parent = parent THEN <<from>> ELSE <<>>)
         \o ChildrenFrom(nodes, parent, from + 1)

ChildNodes(nodes, parent) == ChildrenFrom(nodes, parent, parent + 1)

\* the entries flattenNode pushes for the attributes of the node
AttributeEntries(node, path, opts) ==
    IF opts.includeAttributes /\ Len(node.attrs) # 0
    THEN LET names == SortStrings(AttrNames(node))
         IN  [n \in 1..Len(names) |->
                path \o <<"/", "@">> \o names[n] \o <<"=">>
                     \o q(GetAttribute(node, names[n]))]
    ELSE <<>>

\* the entries flattenNode pushes for one text child
TextEntries(node, path, opts) ==
    IF ~opts.includeText THEN <<>>
    ELSE IF opts.ignoreEmptyText /\ IsBlank(node.value) THEN <<>>
    ELSE LET t == Trim(IF opts.collapseInnerWhitespace
                       THEN CollapseSpace(node.value) ELSE node.value)
         IN  IF opts.ignoreEmptyText /\ t = <<>> THEN <<>>
             ELSE << path \o <<"/", "#", "t", "e", "x", "t", "=">> \o q(t) >>

\* flattenNode(node, path, out, opts): the entries pushed on out
RECURSIVE flattenNode(_, _, _, _)
RECURSIVE FlattenChildren(_, _, _, _)
flattenNode(nodes, n, path, opts) ==
    AttributeEntries(nodes[n], path, opts)
        \o FlattenChildren(nodes, ChildNodes(nodes, n), path, opts)

FlattenChildren(nodes, children, path, opts) ==
    IF children = <<>> THEN <<>>
    ELSE LET c == Head(children)
             here == IF nodes[c].type = "element"
                     THEN flattenNode(nodes, c, path \o <<"/">> \o nodes[c].name, opts)
                     ELSE TextEntries(nodes[c], path, opts)
         IN  here \o FlattenChildren(nodes, Tail(children), path, opts)

\* doc.querySelectorAll(selector) for a type selector: indices in document order
RECURSIVE SelectFrom(_, _, _)
SelectFrom(nodes, selector, from) ==
    IF from > Len(nodes) THEN <<>>
    ELSE (IF nodes[from].type = "element" /\ nodes[from].name = selector
          THEN <<from>> ELSE <<>>)
         \o SelectFrom(nodes, selector, from + 1)

querySelectorAll(nodes, selector) == SelectFrom(nodes, selector, 1)

\* '<' + nodeName + (' ' + the sorted name="value" pairs) + '>'
RecordHeader(name, headerAttrs) ==
    <<"<">> \o name
    \o (IF Len(headerAttrs) # 0 THEN <<SP>> \o Join(headerAttrs, <<SP>>) ELSE <<>>)
    \o <<">">>

HeaderAttrs(rec) ==
    SortStrings([a \in 1..Len(rec.attrs) |->
                    rec.attrs[a].name \o <<"=">> \o q(rec.attrs[a].value)])

\* the canonical string of the record at index n
CanonicalRecord(nodes, n, opts) ==
    RecordHeader(nodes[n].name, HeaderAttrs(nodes[n]))
    \o <<"|">>
    \o Join(SortStrings(flattenNode(nodes, n, <<"/">> \o nodes[n].name, opts)), <<"|">>)

Incident == <<"I", "n", "c", "i", "d", "e", "n", "t">>

\* the loop of recordsToCanonicalStrings over the records selected
RecordStrings(nodes, records, opts) ==
    [r \in 1..Len(records) |-> CanonicalRecord(nodes, records[r], opts)]

\* recordsToCanonicalStrings after parseXml
FlattenRecords(doc, recordSelector) ==
    IF doc.threw THEN [threw |-> TRUE]
    ELSE [threw |-> FALSE,
          out |-> RecordStrings(doc.nodes, querySelectorAll(doc.nodes, recordSelector),
                                FlattenDefaults)]

\* recordsToCanonicalStrings(xmlText, { recordSelector }): the array returned,
\* or the Error of parseXml
recordsToCanonicalStrings(xmlText, recordSelector) ==
    FlattenRecords(parseXml(xmlText), recordSelector)

(***************************************************************************)
(* Order-sensitive diff.                                                   *)
(***************************************************************************)
\* dp[m][n] of lcs: the length of a longest common subsequence of the first m
\* elements of a and the first n elements of b
RECURSIVE LcsTable(_, _, _, _)
LcsTable(a, b, m, n) ==
    IF m = 0 \/ n = 0 THEN 0
    ELSE IF a[m] = b[n] THEN LcsTable(a, b, m - 1, n - 1) + 1
    ELSE Max(LcsTable(a, b, m - 1, n), LcsTable(a, b, m, n - 1))

\* the backtracking loop of lcs from (m, n), already reversed
RECURSIVE LcsBacktrack(_, _, _, _)
LcsBacktrack(a, b, m, n) ==
    IF m = 0 \/ n = 0 THEN <<>>
    ELSE IF a[m] = b[n] THEN Append(LcsBacktrack(a, b, m - 1, n - 1), a[m])
    ELSE IF LcsTable(a, b, m - 1, n) >= LcsTable(a, b, m, n - 1)
         THEN LcsBacktrack(a, b, m - 1, n)
         ELSE LcsBacktrack(a, b, m, n - 1)

\* the sequence as the backtracking pushed it: seq.reverse() forgotten
lcsUnreversed(a, b) ==
    LET seq == LcsBacktrack(a, b, Len(a), Len(b))
    IN  [n \in 1..Len(seq) |-> seq[Len(seq) + 1 - n]]

\* lcs(a, b)
lcs(a, b) == LcsBacktrack(a, b, Len(a), Len(b))

\* one character of escapeHtml
EscapeChar(c) ==
    CASE c = "&" -> <<"&", "a", "m", "p", ";">>
      [] c = "<" -> <<"&", "l", "t", ";">>
      [] c = ">" -> <<"&", "g", "t", ";">>
      [] OTHER -> <<c>>

RECURSIVE escapeHtml(_)
escapeHtml(s) ==
    IF s = <<>> THEN <<>> ELSE EscapeChar(Head(s)) \o escapeHtml(Tail(s))

\* cur = null
NoHunk == [open |-> FALSE, aStart |-> 0, bStart |-> 0, lines |-> <<>>]

\* the start lines left 0-based
startHunkZeroBased(ai, bi) == [open |-> TRUE, aStart |-> ai, bStart |-> bi, lines |-> <<>>]

startHunk(ai, bi) == [open |-> TRUE, aStart |-> ai + 1, bStart |-> bi + 1, lines |-> <<>>]

PushLine(h, tag, line) == [h EXCEPT !.lines = Append(@, <<tag>> \o line)]

\* pushCur: the hunks after the call
pushCur(hs, c) == IF c.open THEN Append(hs, [aStart |-> c.aStart, bStart |-> c.bStart,
                                            lines |-> c.lines])
                  ELSE hs

\* h.lines.filter(l => l[0] !== tag).length
CountNot(lines, tag) == Cardinality({n \in 1..Len(lines) : lines[n][1] # tag})

\* the text unifiedDiff returns, kept in its pieces: the header lines, and for
\* each hunk the four numbers of its @@ line and its escaped lines
DiffText(hs) ==
    [header |-> << <<"-", "-", "-", SP, "A">>, <<"+", "+", "+", SP, "B">> >>,
     body |-> [n \in 1..Len(hs) |->
                [aStart |-> hs[n].aStart,
                 aCount |-> CountNot(hs[n].lines, "+"),
                 bStart |-> hs[n].bStart,
                 bCount |-> CountNot(hs[n].lines, "-"),
                 lines |-> [m \in 1..Len(hs[n].lines) |-> escapeHtml(hs[n].lines[m])]]]]

\* unifiedDiff: the line arrays it walks
\* if (A.length && A[A.length-1] === '') A.pop()
PopEmptyLast(arr) ==
    IF Len(arr) # 0 /\ Last(arr) = <<>> THEN Front(arr) ELSE arr

DiffLinesOf(text) == PopEmptyLast(SplitLF(NormalizeNewlines(text)))

\* renderOrderSensitive: the total it shows for one text
ShownLength(arr) == IF Last(arr) = <<>> THEN Len(arr) - 1 ELSE Len(arr)

ShownTotal(text) == ShownLength(SplitCRLF(text))

\* renderOrderSensitive: the naive quick identical check
QuickIdentical(aText, bText) == NormalizeNewlines(aText) = NormalizeNewlines(bText)

(***************************************************************************)
(* The XML record path.                                                    *)
(***************************************************************************)
\* the shape taken from the two ends of the trimmed text instead
looksLikeXmlByEnds(text) ==
    LET t == Trim(text)
    IN  /\ t # <<>>
        /\ Head(t) = "<"
        /\ Last(t) = ">"

\* /^\s*<[^>]+>/.test(text)
looksLikeXml(text) ==
    LET t == SkipSpace(text)
    IN  /\ t # <<>>
        /\ Head(t) = "<"
        /\ IndexFrom(t, 2, ">") >= 3

\* the options of the two toBag calls on records
RecordBagOptions == [trim |-> TRUE, collapseWhitespace |-> FALSE, caseSensitive |-> TRUE]

\* the options of the fallback calls: { trim: true }
FallbackOptions == [trim |-> TRUE]

\* the end of the try block without a catch: the Error of parseXml leaves
RecordsOrThrow(recA, recB, xmlA, xmlB) ==
    IF recA.threw \/ recB.threw
    THEN [threw |-> TRUE]
    ELSE [threw |-> FALSE, value |-> CompareArrays(recA.out, recB.out, RecordBagOptions)]

\* the try block once both recordsToCanonicalStrings calls are over, and the
\* catch block when one of them threw
RecordsOrFallback(recA, recB, xmlA, xmlB) ==
    IF recA.threw \/ recB.threw
    THEN [threw |-> FALSE, value |-> compareTextAsMultisets(xmlA, xmlB, FallbackOptions)]
    ELSE [threw |-> FALSE, value |-> CompareArrays(recA.out, recB.out, RecordBagOptions)]

\* compareXmlRecordsAsMultisets(xmlA, xmlB, { recordSelector: selector }) when
\* window.XMLFmt is loaded or not: the value returned (threw = FALSE), or the
\* Error that leaves it
compareXmlRecordsAsMultisets(xmlA, xmlB, selector, loaded) ==
    IF loaded
    THEN RecordsOrFallback(recordsToCanonicalStrings(xmlA, selector),
                           recordsToCanonicalStrings(xmlB, selector), xmlA, xmlB)
    ELSE [threw |-> FALSE, value |-> compareTextAsMultisets(xmlA, xmlB, FallbackOptions)]

\* optsFromUI
optsFromUI ==
    [trim |-> trimTrailing, collapseWhitespace |-> collapseWS,
     caseSensitive |-> caseSensitive]

(***************************************************************************)
(* The handlers.                                                           *)
(***************************************************************************)
NothingRendered == [kind |-> "none"]

\* renderMultisetReport(result), or nothing rendered when an Error reached the
\* listener instead of a result
RenderMultiset(call) ==
    IF call.threw
    THEN /\ pc' = "threw"
         /\ UNCHANGED <<summary, details>>
    ELSE /\ summary' = [kind |-> "multiset", summary |-> call.value.summary]
         /\ details' = [kind |-> "multiset", details |-> call.value.details]
         /\ pc' = "done"

\* the branch of runComparison with Ignore Order on
CompareIgnoringOrder ==
    IF looksLikeXml(inputA) /\ looksLikeXml(inputB)
    THEN compareXmlRecordsAsMultisets(inputA, inputB, Incident, XMLFmt)
    ELSE [threw |-> FALSE, value |-> compareTextAsMultisets(inputA, inputB, optsFromUI)]

\* unifiedDiff up to its while loop
EnterUnifiedDiff(linesA, linesB) ==
    /\ A' = linesA
    /\ B' = linesB
    /\ common' = lcs(linesA, linesB)
    /\ i' = 0 /\ j' = 0 /\ k' = 0
    /\ cur' = NoHunk
    /\ hunks' = <<>>
    /\ pc' = "loop"

\* renderOrderSensitive, up to the while loop of unifiedDiff when it is called
renderOrderSensitive(identical) ==
    /\ summary' = [kind |-> "sequence",
                   totalA |-> ShownTotal(inputA), totalB |-> ShownTotal(inputB),
                   identical |-> identical]
    /\ IF identical
       THEN /\ details' = [kind |-> "nodiff"]
            /\ pc' = "done"
            /\ UNCHANGED <<A, B, common, i, j, k, cur, hunks>>
       ELSE /\ EnterUnifiedDiff(DiffLinesOf(inputA), DiffLinesOf(inputB))
            /\ UNCHANGED details

\* runComparison of the compat build
runComparison ==
    /\ pc = "idle"
    /\ IF ignoreOrderToggle
       THEN /\ RenderMultiset(CompareIgnoringOrder)
            /\ UNCHANGED <<A, B, common, i, j, k, cur, hunks>>
       ELSE renderOrderSensitive(QuickIdentical(inputA, inputB))
    /\ UNCHANGED pageVars
    /\ UNCHANGED canonVars

\* one iteration of the while loop of unifiedDiff
unifiedDiffIteration ==
    /\ pc = "loop"
    /\ i < Len(A) \/ j < Len(B)
    /\ IF /\ k < Len(common) /\ i < Len(A) /\ j < Len(B)
          /\ A[i + 1] = common[k + 1] /\ B[j + 1] = common[k + 1]
       THEN /\ cur' = IF cur.open THEN PushLine(cur, SP, A[i + 1]) ELSE cur
            /\ i' = i + 1 /\ j' = j + 1 /\ k' = k + 1
       ELSE LET c == IF cur.open THEN cur ELSE startHunk(i, j)
            IN  IF j < Len(B) /\ (k >= Len(common) \/ B[j + 1] # common[k + 1])
                THEN /\ cur' = PushLine(c, "+", B[j + 1])
                     /\ j' = j + 1
                     /\ UNCHANGED <<i, k>>
                ELSE IF i < Len(A) /\ (k >= Len(common) \/ A[i + 1] # common[k + 1])
                THEN /\ cur' = PushLine(c, "-", A[i + 1])
                     /\ i' = i + 1
                     /\ UNCHANGED <<j, k>>
                ELSE /\ cur' = c
                     /\ UNCHANGED <<i, j, k>>
    /\ UNCHANGED <<pc, A, B, common, hunks>>
    /\ UNCHANGED <<pageVars, outVars, canonVars>>

\* the loop left: the open hunk is pushed, the text built and rendered
unifiedDiffReturn ==
    /\ pc = "loop"
    /\ ~(i < Len(A) \/ j < Len(B))
    /\ hunks' = pushCur(hunks, cur)
    /\ cur' = NoHunk
    /\ details' = [kind |-> "diff", diff |-> DiffText(hunks')]
    /\ pc' = "done"
    /\ UNCHANGED <<A, B, common, i, j, k, summary>>
    /\ UNCHANGED <<pageVars, canonVars>>

(***************************************************************************)
(* Initial values of the parts of the state a specification leaves alone.  *)
(***************************************************************************)
DiffIdle ==
    /\ pc = "idle"
    /\ A = <<>> /\ B = <<>> /\ common = <<>>
    /\ i = 0 /\ j = 0 /\ k = 0
    /\ cur = NoHunk
    /\ hunks = <<>>

CanonIdle ==
    /\ rowIn = <<>>
    /\ rowOpts = [trim |-> TRUE, collapseWhitespace |-> FALSE, caseSensitive |-> TRUE]
    /\ rowOut = <<>>
    /\ rowOut2 = <<>>
    /\ rowBy = "none"
    /\ rowCalls = 0

NothingShown ==
    /\ summary = NothingRendered
    /\ details = NothingRendered

\* the checkboxes as safeChecked falls back to
DefaultBoxes ==
    /\ trimTrailing = TRUE
    /\ collapseWS = FALSE
    /\ caseSensitive = TRUE

(***************************************************************************)
(* Specification SpecCanon: canonicalizeRow applied to one row, then to    *)
(* the row it returned.                                                    *)
(***************************************************************************)
RowChars == {SP, TAB, CR, LF, "a", "A"}

Rows == SeqsUpTo(RowChars, MaxRowLen)

InitCanon ==
    /\ rowIn \in Rows
    /\ rowOpts \in OptionObjects
    /\ rowOut = <<>>
    /\ rowOut2 = <<>>
    /\ rowCalls = 0
    /\ rowBy = "none"
    /\ inputA = <<>> /\ inputB = <<>>
    /\ ignoreOrderToggle = FALSE
    /\ XMLFmt = FALSE
    /\ DefaultBoxes
    /\ NothingShown
    /\ DiffIdle

CallCanonicalizeRow ==
    /\ rowBy = "none"
    /\ rowOut' = canonicalizeRow(rowIn, rowOpts)
    /\ rowBy' = "script"
    /\ rowCalls' = 1
    /\ UNCHANGED <<rowIn, rowOpts, rowOut2>>
    /\ UNCHANGED <<pageVars, outVars, diffVars>>

CallCanonicalizeRowCompat ==
    /\ rowBy = "none"
    /\ rowOut' = canonicalizeRowCompat(rowIn, rowOpts)
    /\ rowBy' = "compat"
    /\ rowCalls' = 1
    /\ UNCHANGED <<rowIn, rowOpts, rowOut2>>
    /\ UNCHANGED <<pageVars, outVars, diffVars>>

\* the row returned is canonicalized again with the same options
CallCanonicalizeRowAgain ==
    /\ rowBy \in {"script", "compat"}
    /\ rowCalls = 1
    /\ rowCalls' = 2
    /\ rowOut2' = IF rowBy = "script" THEN canonicalizeRow(rowOut, rowOpts)
                  ELSE canonicalizeRowCompat(rowOut, rowOpts)
    /\ UNCHANGED <<rowIn, rowOpts, rowOut, rowBy>>
    /\ UNCHANGED <<pageVars, outVars, diffVars>>

NextCanon ==
    \/ CallCanonicalizeRow
    \/ CallCanonicalizeRowCompat
    \/ CallCanonicalizeRowAgain

SpecCanon == InitCanon /\ [][NextCanon]_vars

(***************************************************************************)
(* Specification SpecDiff: one click on Compare with line texts in the two *)
(* textareas; the order-sensitive diff runs when Ignore Order is off.      *)
(***************************************************************************)
DiffLineSet == {<<"x">>, <<"y">>, <<"z">>}

Terminators == {<<>>, <<LF>>}

TextsOf(lineSet, maxLines) ==
    {Join(ls, <<LF>>) \o t : ls \in SeqsUpTo(lineSet, maxLines), t \in Terminators}

InitDiff ==
    /\ inputA \in TextsOf(DiffLineSet, MaxDiffLines)
    /\ inputB \in TextsOf(DiffLineSet, MaxDiffLines)
    /\ ignoreOrderToggle \in BOOLEAN
    /\ XMLFmt = TRUE
    /\ DefaultBoxes
    /\ NothingShown
    /\ DiffIdle
    /\ CanonIdle

NextDiff ==
    \/ runComparison
    \/ unifiedDiffIteration
    \/ unifiedDiffReturn

SpecDiff == InitDiff /\ [][NextDiff]_vars

(***************************************************************************)
(* Specification SpecMultiset: one click on Compare with Ignore Order on,  *)
(* line texts in the textareas and any state of the three option boxes.    *)
(***************************************************************************)
BagLineSet == {<<"b">>, <<"B", TAB>>}

InitMultiset ==
    /\ inputA \in TextsOf(BagLineSet, MaxBagLines)
    /\ inputB \in TextsOf(BagLineSet, MaxBagLines)
    /\ ignoreOrderToggle = TRUE
    /\ XMLFmt = TRUE
    /\ trimTrailing \in BOOLEAN
    /\ collapseWS \in BOOLEAN
    /\ caseSensitive \in BOOLEAN
    /\ NothingShown
    /\ DiffIdle
    /\ CanonIdle

NextMultiset == runComparison

SpecMultiset == InitMultiset /\ [][NextMultiset]_vars

(***************************************************************************)
(* Specification SpecXml: one click on Compare with Ignore Order on and    *)
(* XML documents (well-formed or not) in the textareas, with and without   *)
(* xmlFormatter.js loaded.                                                 *)
(***************************************************************************)
Quoted(v) == <<"\"">> \o v \o <<"\"">>

EmptyElement(name, attrText) == <<"<">> \o name \o attrText \o <<"/", ">">>

Element(name, attrText, content) ==
    <<"<">> \o name \o attrText \o <<">">> \o content \o <<"<", "/">> \o name \o <<">">>

AttrId1 == <<SP, "i", "d", "=">> \o Quoted(<<"1">>)

AttrId2 == <<SP, "i", "d", "=">> \o Quoted(<<"2">>)

AttrKv == <<SP, "k", "=">> \o Quoted(<<"v">>)

\* records with their attributes and their children in one order
FirstForms ==
    { EmptyElement(Incident, AttrId1 \o AttrKv),
      Element(Incident, <<>>, Element(<<"a">>, <<>>, <<"x">>)
                              \o Element(<<"b">>, <<>>, <<"Y", SP>>)),
      Element(Incident, AttrId2, EmptyElement(Incident, AttrId1)) }

\* the same, and the first two with attributes and children in the other order
RecordTexts ==
    FirstForms \cup
    { EmptyElement(Incident, AttrKv \o AttrId1),
      Element(Incident, <<>>, Element(<<"b">>, <<>>, <<"Y", SP>>)
                              \o Element(<<"a">>, <<>>, <<"x">>)) }

Document(records) == Element(<<"r">>, <<>>, Join(records, <<LF>>))

\* Scenario 4: <a><b></a>, and the same on three lines with a trailing blank
MalformedTexts ==
    { <<"<", "a", ">", "<", "b", ">", "<", "/", "a", ">">>,
      <<"<", "a", ">", LF, "<", "B", ">", SP, LF, "<", "/", "a", ">">>,
      <<"<", "a", ">", LF, "<", "b", ">", LF, "<", "/", "a", ">">> }

XmlTexts(records) ==
    {Document(rs) : rs \in SeqsUpTo(records, MaxRecords)} \cup MalformedTexts

InitXml ==
    /\ inputA \in XmlTexts(FirstForms)
    /\ inputB \in XmlTexts(RecordTexts)
    /\ ignoreOrderToggle = TRUE
    /\ XMLFmt \in BOOLEAN
    /\ DefaultBoxes
    /\ NothingShown
    /\ DiffIdle
    /\ CanonIdle

NextXml == runComparison

SpecXml == InitXml /\ [][NextXml]_vars

(***************************************************************************)
(* Specification SpecMode: one click on Compare with texts of every shape  *)
(* runComparison tells apart, whatever the toggle.                         *)
(***************************************************************************)
ShapeTexts ==
    { <<>>,
      <<"x">>,
      <<"<", "a">>,
      <<"<", "a", ">", "x">>,
      <<"<", "A", ">", "x">>,
      <<"<", ">", "a", ">">>,
      <<"<", ">", "A", ">">>,
      Document(<<EmptyElement(Incident, AttrId1)>>),
      <<SP, LF>> \o Document(<<EmptyElement(Incident, AttrId1),
                               EmptyElement(Incident, AttrId1)>>) \o <<LF>> }

InitMode ==
    /\ inputA \in ShapeTexts
    /\ inputB \in ShapeTexts
    /\ ignoreOrderToggle \in BOOLEAN
    /\ XMLFmt \in BOOLEAN
    /\ trimTrailing = TRUE
    /\ collapseWS = FALSE
    /\ caseSensitive \in BOOLEAN
    /\ NothingShown
    /\ DiffIdle
    /\ CanonIdle

NextMode == runComparison \/ unifiedDiffIteration \/ unifiedDiffReturn

SpecMode == InitMode /\ [][NextMode]_vars

(***************************************************************************)
(* Specification SpecNewline: one click on Compare with texts whose lines  *)
(* are separated by \n, by \r\n or by a lone \r.                           *)
(***************************************************************************)
Separators == {<<LF>>, <<CR, LF>>, <<CR>>}

NewlineLineSet == {<<"x">>, <<"y">>}

NewlineLists == SeqsUpTo(NewlineLineSet, MaxNewlineLines)

NewlineTexts == {Join(ls, sep) : ls \in NewlineLists, sep \in Separators}

InitNewline ==
    /\ inputA \in NewlineTexts
    /\ inputB \in NewlineTexts
    /\ ignoreOrderToggle \in BOOLEAN
    /\ XMLFmt = TRUE
    /\ DefaultBoxes
    /\ NothingShown
    /\ DiffIdle
    /\ CanonIdle

NextNewline == runComparison \/ unifiedDiffIteration \/ unifiedDiffReturn

SpecNewline == InitNewline /\ [][NextNewline]_vars

(***************************************************************************)
(* Specification SpecLoop: the order-sensitive comparison of two texts,    *)
(* run to its end.  The handler is synchronous: once runComparison has     *)
(* entered the while loop of unifiedDiff nothing else runs until it        *)
(* returns, so an iteration that can run does run, and so does the return. *)
(***************************************************************************)
LoopTexts == {Join(ls, <<LF>>) : ls \in SeqsUpTo(DiffLineSet, MaxDiffLines)}

InitLoop ==
    /\ inputA \in LoopTexts
    /\ inputB \in LoopTexts
    /\ ignoreOrderToggle = FALSE
    /\ XMLFmt = TRUE
    /\ DefaultBoxes
    /\ NothingShown
    /\ DiffIdle
    /\ CanonIdle

NextLoop == runComparison \/ unifiedDiffIteration \/ unifiedDiffReturn

SpecLoop ==
    /\ InitLoop
    /\ [][NextLoop]_vars
    /\ WF_vars(unifiedDiffIteration)
    /\ WF_vars(unifiedDiffReturn)

(***************************************************************************)
(* Properties of canonicalizeRow (SpecCanon).                              *)
(***************************************************************************)
RECURSIVE LeadingHSpace(_)
LeadingHSpace(s) ==
    IF s # <<>> /\ IsHSpace(Head(s))
    THEN <<Head(s)>> \o LeadingHSpace(Tail(s))
    ELSE <<>>

CountUpper(s) == Cardinality({n \in 1..Len(s) : LowerChar(s[n]) # s[n]})

AllOptionsOn == [trim |-> TRUE, collapseWhitespace |-> TRUE, caseSensitive |-> FALSE]

\* C4: the maximal leading run of spaces and tabs of the row returned by
\* canonicalizeRow is that of its argument, whatever the options.
C4_LeadingWhitespaceKept ==
    rowCalls >= 1 => LeadingHSpace(rowOut) = LeadingHSpace(rowIn)

\* C9: canonicalizing a canonicalized row with the same options returns it
\* unchanged.
C9_Idempotent ==
    rowCalls = 2 => rowOut2 = rowOut

C9_Witness ==
    /\ rowCalls = 2
    /\ rowOpts = AllOptionsOn
    /\ rowIn = <<SP, "A", TAB, SP>>
    /\ rowOut = <<SP, "a">>

\* C10: an options object that does not set caseSensitive leaves the case of
\* the row alone (the default is caseSensitive = true).
C10_OmittedCaseSensitiveKeepsCase ==
    (rowCalls >= 1 /\ ~Has(rowOpts, "caseSensitive"))
        => CountUpper(rowOut) = CountUpper(rowIn)

(***************************************************************************)
(* Properties of the order-sensitive diff (SpecDiff).                      *)
(***************************************************************************)
Conflict == << <<"conflict">> >>

\* the lines of one hunk applied to the lines of a from index at (1-based) on:
\* the lines produced and the index reached, or ok = FALSE when a context or
\* removed line is not the line of a it stands for
RECURSIVE ApplyLines(_, _, _)
ApplyLines(lines, a, at) ==
    IF lines = <<>> THEN [ok |-> TRUE, out |-> <<>>, at |-> at]
    ELSE LET r == ApplyLines(Front(lines), a, at)
             tag == Last(lines)[1]
             text == Tail(Last(lines))
         IN  IF ~r.ok THEN r
             ELSE IF tag = "+" THEN [r EXCEPT !.out = Append(@, text)]
             ELSE IF r.at > Len(a) \/ a[r.at] # text THEN [r EXCEPT !.ok = FALSE]
             ELSE IF tag = SP THEN [ok |-> TRUE, out |-> Append(r.out, text), at |-> r.at + 1]
             ELSE [r EXCEPT !.at = @ + 1]

\* the hunks applied in order: the lines of a before a hunk are copied
RECURSIVE ApplyHunks(_, _)
ApplyHunks(hs, a) ==
    IF hs = <<>> THEN [ok |-> TRUE, out |-> <<>>, at |-> 1]
    ELSE LET r == ApplyHunks(Front(hs), a)
             h == Last(hs)
         IN  IF ~r.ok \/ h.aStart < r.at \/ h.aStart > Len(a) + 1 THEN [r EXCEPT !.ok = FALSE]
             ELSE LET x == ApplyLines(h.lines, a, h.aStart)
                  IN  [ok |-> x.ok,
                       out |-> r.out \o SubSeq(a, r.at, h.aStart - 1) \o x.out,
                       at |-> x.at]

\* the patched file: the lines of a after the last hunk are copied
Patched(r, a) == IF r.ok THEN r.out \o SubSeq(a, r.at, Len(a)) ELSE Conflict

Patch(hs, a) == Patched(ApplyHunks(hs, a), a)

DiffRan == pc = "done" /\ details.kind = "diff"

\* C1: the '+' and '-' operations of the hunks unifiedDiff has emitted, applied
\* to A from each hunk's aStart with context lines copied, give B.
C1_RoundTrip ==
    DiffRan => Patch(hunks, A) = B

HasTag(h, tag) == \E n \in 1..Len(h.lines) : h.lines[n][1] = tag

C1_Witness ==
    /\ DiffRan
    /\ Len(hunks) = 1
    /\ hunks[1].aStart > 1
    /\ HasTag(hunks[1], SP) /\ HasTag(hunks[1], "+") /\ HasTag(hunks[1], "-")
    /\ Len(A) = MaxDiffLines /\ Len(B) = MaxDiffLines

ContextLines(hs) ==
    IF hs = <<>> THEN 0
    ELSE Cardinality({n \in 1..Len(hs[1].lines) : hs[1].lines[n][1] = SP})

ScenarioThree ==
    /\ inputA = <<"x", LF, "y">>
    /\ inputB = <<"x", LF, "z">>

\* C2: every line of the common subsequence is emitted as a context line of
\* the hunk; for A = [x, y] and B = [x, z] there is one hunk and its lines are
\* the context " x", the removed "-y" and the added "+z".
C2_CommonLinesAreContext ==
    DiffRan =>
        /\ Len(hunks) = 1 => ContextLines(hunks) = Len(common)
        /\ ScenarioThree =>
            /\ Len(hunks) = 1
            /\ Len(hunks[1].lines) = 3
            /\ Range(hunks[1].lines) = {<<SP, "x">>, <<"-", "y">>, <<"+", "z">>}

\* C3: a text that does not end in a newline and the same text followed by one
\* newline are reported identical, with Ignore Order on and off.
C3_TerminalNewlineIgnored ==
    ( /\ pc = "done"
      /\ inputA # <<>>
      /\ Last(inputA) \notin {LF, CR}
      /\ inputB = inputA \o <<LF>> )
        => IF ignoreOrderToggle THEN summary.summary.identical ELSE summary.identical

(***************************************************************************)
(* Properties of the multiset comparison (SpecMultiset).                   *)
(***************************************************************************)
MultisetRan == pc = "done" /\ summary.kind = "multiset"

\* the line arrays compareTextAsMultisets builds its bags from
LinesA == prune(SplitCRLF(inputA))

LinesB == prune(SplitCRLF(inputB))

\* how many entries of a result list carry the key
Entries(list, key) == Cardinality({n \in 1..Len(list) : list[n].value = key})

EntryOf(list, key) == list[CHOOSE n \in 1..Len(list) : list[n].value = key]

ListedKeys(list) == {list[n].value : n \in 1..Len(list)}

\* the class of one key, a and b being its counts in the two bags
ClassifiedOnce(d, key, a, b) ==
    /\ Entries(d.onlyInA, key) = (IF a > 0 /\ b = 0 THEN 1 ELSE 0)
    /\ Entries(d.onlyInB, key) = (IF a = 0 /\ b > 0 THEN 1 ELSE 0)
    /\ Entries(d.freqDelta, key) = (IF a > 0 /\ b > 0 /\ a # b THEN 1 ELSE 0)
    /\ (a > 0 /\ b = 0) => EntryOf(d.onlyInA, key) = [value |-> key, count |-> a]
    /\ (a = 0 /\ b > 0) => EntryOf(d.onlyInB, key) = [value |-> key, count |-> b]
    /\ (a > 0 /\ b > 0 /\ a # b) =>
            EntryOf(d.freqDelta, key) = [value |-> key, a |-> a, b |-> b, delta |-> a - b]

Partitioned(d, bagA, bagB) ==
    /\ \A key \in Range(MapKeys(bagA)) \cup Range(MapKeys(bagB)) :
            ClassifiedOnce(d, key, MapGet(bagA, key), MapGet(bagB, key))
    /\ (ListedKeys(d.onlyInA) \cup ListedKeys(d.onlyInB) \cup ListedKeys(d.freqDelta))
            \subseteq (Range(MapKeys(bagA)) \cup Range(MapKeys(bagB)))

\* C6: diffBags puts every key of the two bags in exactly one class: onlyInA
\* with its A-count, onlyInB with its B-count, freqDelta with a, b and a - b,
\* or none of the lists when the counts are equal; no key is listed twice.
C6_Partition ==
    MultisetRan =>
        Partitioned(details.details, toBag(LinesA, optsFromUI), toBag(LinesB, optsFromUI))

\* Scenario 2, with the lines "b" and "B\t" for "a" and "b"
C6_Witness ==
    /\ MultisetRan
    /\ inputA = <<"b", LF, "B", TAB, LF, "B", TAB>>
    /\ inputB = <<"B", TAB, LF, "b", LF, "b">>
    /\ caseSensitive /\ ~trimTrailing /\ ~collapseWS
    /\ details.details.freqDelta =
        << [value |-> <<"b">>, a |-> 1, b |-> 2, delta |-> -1],
           [value |-> <<"B", TAB>>, a |-> 2, b |-> 1, delta |-> 1] >>
    /\ ~summary.summary.identical

\* the arrangements of the elements of a sequence
Arrangements(seq) ==
    {[n \in 1..Len(seq) |-> seq[f[n]]] : f \in Permutations(1..Len(seq))}

\* the text whose lines are the given ones, each ended by a line feed
RECURSIVE TextOfLines(_)
TextOfLines(lines) ==
    IF lines = <<>> THEN <<>> ELSE TextOfLines(Front(lines)) \o Last(lines) \o <<LF>>

\* a Map as the function from its keys to their counts
MapAsFunction(bag) == [key \in Range(MapKeys(bag)) |-> MapGet(bag, key)]

Shown(report) ==
    /\ summary = [kind |-> "multiset", summary |-> report.summary]
    /\ details = [kind |-> "multiset", details |-> report.details]

\* C7: whatever the order of the lines of either text, toBag counts the same
\* keys the same number of times and compareTextAsMultisets returns the same
\* summary and the same three lists.
C7_OrderIgnored ==
    MultisetRan =>
        /\ \A pa \in Arrangements(LinesA) :
            /\ MapAsFunction(toBag(pa, optsFromUI))
                    = MapAsFunction(toBag(LinesA, optsFromUI))
            /\ Shown(compareTextAsMultisets(TextOfLines(pa), inputB, optsFromUI))
        /\ \A pb \in Arrangements(LinesB) :
            Shown(compareTextAsMultisets(inputA, TextOfLines(pb), optsFromUI))

C7_Witness ==
    /\ MultisetRan
    /\ inputA = <<"b", LF, "B", TAB, LF, "b">>
    /\ inputB = <<"B", TAB, LF, "b", LF>>
    /\ ~caseSensitive /\ trimTrailing
    /\ details.details.freqDelta = <<[value |-> <<"b">>, a |-> 3, b |-> 2, delta |-> 1]>>

\* how many lines have the canonical form key
CountIn(lines, key) ==
    Cardinality({n \in 1..Len(lines) : canonicalizeRowCompat(lines[n], optsFromUI) = key})

CanonicalLines(lines) ==
    {canonicalizeRowCompat(lines[n], optsFromUI) : n \in 1..Len(lines)}

SameCounts ==
    \A key \in CanonicalLines(LinesA) \cup CanonicalLines(LinesB) :
        CountIn(LinesA, key) = CountIn(LinesB, key)

ListsEmpty ==
    /\ details.details.onlyInA = <<>>
    /\ details.details.onlyInB = <<>>
    /\ details.details.freqDelta = <<>>

AbcText == <<"a", LF, "b", LF, "c">>

\* C8: identical is reported exactly when the three lists are empty, which is
\* when every canonical line has the same count in A and in B; two empty texts
\* give totals and bag sizes 0 and identical, and three distinct lines compared
\* with themselves give totals 3 and identical.
C8_IdenticalIffNoDifference ==
    MultisetRan =>
        /\ summary.summary.identical <=> ListsEmpty
        /\ summary.summary.identical <=> SameCounts
        /\ (inputA = <<>> /\ inputB = <<>>) =>
            /\ summary.summary.identical
            /\ summary.summary.totalA = 0 /\ summary.summary.totalB = 0
            /\ summary.summary.uniqueA = 0 /\ summary.summary.uniqueB = 0
        /\ (inputA = inputB /\ Len(LinesA) = 3) =>
            /\ summary.summary.identical
            /\ summary.summary.totalA = 3 /\ summary.summary.totalB = 3
        /\ compareTextAsMultisets(AbcText, AbcText, optsFromUI).summary
            = [totalA |-> 3, totalB |-> 3, uniqueA |-> 3, uniqueB |-> 3,
               onlyInA |-> 0, onlyInB |-> 0, freqDelta |-> 0, identical |-> TRUE]

C8_Witness ==
    /\ MultisetRan
    /\ inputA = <<"b", LF, "B", TAB, LF, "b">>
    /\ inputB = <<"B", TAB, LF, "b", LF, "b", LF>>
    /\ caseSensitive
    /\ summary.summary.identical
    /\ summary.summary.totalA = 3 /\ summary.summary.totalB = 3
    /\ summary.summary.uniqueA = 2

(***************************************************************************)
(* Properties of the XML record path (SpecXml).                            *)
(***************************************************************************)
XmlAttempted ==
    /\ pc # "idle"
    /\ ignoreOrderToggle
    /\ looksLikeXml(inputA) /\ looksLikeXml(inputB)

FlattenerFails ==
    \/ ~XMLFmt
    \/ parseXml(inputA).threw
    \/ parseXml(inputB).threw

\* C5: when the XML parsing of either text fails or XMLFmt is not loaded, no
\* Error leaves compareXmlRecordsAsMultisets and what is rendered is the
\* line-based multiset comparison of the two raw texts.
C5_FailureFallsBackToLines ==
    (XmlAttempted /\ FlattenerFails) =>
        /\ pc = "done"
        /\ \E o \in OptionObjects : Shown(compareTextAsMultisets(inputA, inputB, o))

\* Scenario 4
C5_Witness ==
    /\ XmlAttempted /\ XMLFmt
    /\ inputA = <<"<", "a", ">", "<", "b", ">", "<", "/", "a", ">">>
    /\ ~parseXml(inputB).threw
    /\ pc = "done"
    /\ summary.kind = "multiset"
    /\ summary.summary.totalA = 1

(***************************************************************************)
(* Properties of the mode selection (SpecMode).                            *)
(***************************************************************************)
\* the trimmed text starts with "<" and ends with ">"
StartsAndEndsAngle(text) ==
    LET t == Trim(text)
    IN  t # <<>> /\ Head(t) = "<" /\ Last(t) = ">"

\* after white space the text starts with "<", one character or more that is
\* not ">", and ">"
TagAtStart(text) ==
    \E p \in 1..Len(text), r \in 1..Len(text) :
        /\ r >= p + 2
        /\ \A n \in 1..(p - 1) : IsSpace(text[n])
        /\ text[p] = "<"
        /\ text[r] = ">"
        /\ \A n \in (p + 1)..(r - 1) : text[n] # ">"

\* what is on the page is what the mode chosen by the toggle and by the shape
\* of the two texts renders
ModeShown(bothXml) ==
    IF ~ignoreOrderToggle
    THEN summary.kind = "sequence"
    ELSE IF bothXml
    THEN Shown(compareXmlRecordsAsMultisets(inputA, inputB, Incident, XMLFmt).value)
    ELSE Shown(compareTextAsMultisets(inputA, inputB, optsFromUI))

\* C11 as stated: the XML record comparison runs exactly when Ignore Order is
\* on and both trimmed texts start with "<" and end with ">"; with Ignore
\* Order on otherwise the line comparison runs with the options of the page;
\* with Ignore Order off the sequence diff runs.
C11_ModeByTrimmedEnds ==
    pc # "idle" =>
        ModeShown(StartsAndEndsAngle(inputA) /\ StartsAndEndsAngle(inputB))

\* C11 amended: the XML record comparison runs exactly when Ignore Order is on
\* and both texts, after leading white space, start with "<", at least one
\* character other than ">", and ">", however they end; with Ignore Order on
\* otherwise the line comparison runs with the options of the page; with
\* Ignore Order off the sequence diff runs.
C11_ModeByLeadingTag ==
    pc # "idle" => ModeShown(TagAtStart(inputA) /\ TagAtStart(inputB))

\* two texts that start with a tag and do not end with ">": the XML path is
\* taken, fails to parse and falls back, so the case is folded although the
\* box of the page is checked
C11_Witness ==
    /\ pc = "done"
    /\ ignoreOrderToggle /\ XMLFmt /\ caseSensitive
    /\ inputA = <<"<", "a", ">", "x">>
    /\ inputB = <<"<", "A", ">", "x">>
    /\ ~StartsAndEndsAngle(inputA)
    /\ summary.kind = "multiset"
    /\ summary.summary.identical

(***************************************************************************)
(* Properties of the XML record flattener (SpecXml).                       *)
(***************************************************************************)
RecordLists == SeqsUpTo(RecordTexts, MaxRecords)

IsDocument(text) == \E rs \in RecordLists : Document(rs) = text

\* the records a document was written with
RecordsOf(text) == CHOOSE rs \in RecordLists : Document(rs) = text

\* the record with its attributes and its children put in the first order
FirstFormOf(rec) ==
    IF rec = EmptyElement(Incident, AttrKv \o AttrId1)
    THEN EmptyElement(Incident, AttrId1 \o AttrKv)
    ELSE IF rec = Element(Incident, <<>>, Element(<<"b">>, <<>>, <<"Y", SP>>)
                                          \o Element(<<"a">>, <<>>, <<"x">>))
    THEN Element(Incident, <<>>, Element(<<"a">>, <<>>, <<"x">>)
                                 \o Element(<<"b">>, <<>>, <<"Y", SP>>))
    ELSE rec

\* rb holds the records of ra in some order, each with its attributes and its
\* children in some order
Reordered(ra, rb) ==
    /\ Len(ra) = Len(rb)
    /\ \E f \in Permutations(1..Len(ra)) :
            \A n \in 1..Len(ra) : FirstFormOf(rb[f[n]]) = FirstFormOf(ra[n])

SameCanonicalSet(ca, cb) ==
    /\ ~ca.threw /\ ~cb.threw
    /\ Range(ca.out) = Range(cb.out)
    /\ Len(ca.out) = Len(cb.out)

\* C12: two documents whose records are the same up to the order of the
\* records, of the attributes of an element and of the children of a record
\* give the same set of canonical strings, and are reported identical when the
\* flattener is loaded.
C12_FlatteningIgnoresOrder ==
    ( /\ pc # "idle"
      /\ IsDocument(inputA) /\ IsDocument(inputB)
      /\ Reordered(RecordsOf(inputA), RecordsOf(inputB)) )
        => /\ SameCanonicalSet(recordsToCanonicalStrings(inputA, Incident),
                               recordsToCanonicalStrings(inputB, Incident))
           /\ XMLFmt => (pc = "done" /\ summary.summary.identical)

\* Scenario 5
C12_Witness ==
    /\ pc = "done" /\ XMLFmt
    /\ inputA = Document(<<EmptyElement(Incident, AttrId1 \o AttrKv)>>)
    /\ inputB = Document(<<EmptyElement(Incident, AttrKv \o AttrId1)>>)
    /\ summary.summary.identical
    /\ summary.summary.totalA = 1 /\ summary.summary.totalB = 1
    /\ summary.summary.uniqueA = 1

(***************************************************************************)
(* Properties of lcs and of the loop of unifiedDiff (SpecDiff).            *)
(***************************************************************************)
\* unifiedDiff was called: A, B and common hold its arrays
DiffEntered ==
    /\ pc \in {"loop", "done"}
    /\ summary.kind = "sequence"
    /\ ~summary.identical

\* the elements of s at the indices of I, in their order
Pick(s, I) ==
    LET Chosen(n) == n \in I
        idx == SelectSeq(UpTo(Len(s)), Chosen)
    IN  [n \in 1..Len(idx) |-> s[idx[n]]]

Subsequences(s) == {Pick(s, I) : I \in SUBSET (1..Len(s))}

\* C13: lcs(A, B) is a subsequence of A and of B, no common subsequence is
\* longer, and lcs(A, A) = A.
C13_LongestCommonSubsequence ==
    DiffEntered =>
        /\ common \in Subsequences(A)
        /\ common \in Subsequences(B)
        /\ \A c \in Subsequences(A) \cap Subsequences(B) : Len(c) <= Len(common)
        /\ A = B => common = A
        /\ lcs(A, A) = A /\ lcs(B, B) = B

\* neither a common prefix nor the whole of a text
C13_Witness ==
    /\ DiffEntered
    /\ A = << <<"x">>, <<"y">>, <<"z">> >>
    /\ B = << <<"y">>, <<"x">>, <<"z">> >>
    /\ Len(common) = 2
    /\ common[2] = <<"z">>

(***************************************************************************)
(* Properties of the newline variants (SpecNewline).                       *)
(***************************************************************************)
\* the lines a text was written with, whatever separates them
WrittenLines(text) ==
    CHOOSE ls \in NewlineLists : \E sep \in Separators : Join(ls, sep) = text

\* what the multiset comparison shows for two arrays of lines
LinesShownAsMultiset(la, lb) ==
    Shown(CompareArrays(la, lb, optsFromUI))

\* what the sequence diff shows and works on for two arrays of lines
LinesShownAsSequence(la, lb) ==
    /\ summary = [kind |-> "sequence", totalA |-> Len(la), totalB |-> Len(lb),
                  identical |-> la = lb]
    /\ la # lb => (A = la /\ B = lb)

\* C14: the lines compared are those the text was written with, whether \n,
\* \r\n or a lone \r separates them: same totals, same bags and same result,
\* with Ignore Order on and off.
C14_NewlineVariantIrrelevant ==
    pc = "done" =>
        IF ignoreOrderToggle
        THEN LinesShownAsMultiset(WrittenLines(inputA), WrittenLines(inputB))
        ELSE LinesShownAsSequence(WrittenLines(inputA), WrittenLines(inputB))

(***************************************************************************)
(* Properties of the loop of unifiedDiff (SpecLoop).                       *)
(***************************************************************************)
CursorsAtEnd == i = Len(A) /\ j = Len(B) /\ k = Len(common)

\* C15: every iteration of the while loop of unifiedDiff advances i, j or k,
\* and the loop, once entered, is left with i = |A|, j = |B| and
\* k = |lcs(A, B)|.
C15_LoopTerminates ==
    /\ [][unifiedDiffIteration => (i' > i \/ j' > j \/ k' > k)]_vars
    /\ [](DiffEntered => common = lcs(A, B))
    /\ (pc = "loop") ~> (pc = "done" /\ CursorsAtEnd)

\* a loop that took a context step, an add and a remove before it returned
C15_Witness ==
    /\ pc = "done" /\ DiffEntered
    /\ A = << <<"x">>, <<"y">>, <<"z">> >>
    /\ B = << <<"y">>, <<"x">>, <<"z">> >>
    /\ CursorsAtEnd
    /\ k = 2
    /\ Len(hunks) = 1 /\ Len(hunks[1].lines) = 4

(***************************************************************************)
(* Properties of nested records (SpecXml).                                 *)
(***************************************************************************)
\* the canonical strings of a flattener call that returned
StringsOf(call) == IF call.threw THEN <<>> ELSE call.out

\* C16: recordsToCanonicalStrings returns one string for each outermost
\* element that matches the selector; a matching element nested in another
\* one gives no string of its own.
C16_OneStringPerOutermostRecord ==
    (pc # "idle" /\ IsDocument(inputA)) =>
        /\ Len(StringsOf(recordsToCanonicalStrings(inputA, Incident)))
                = Len(RecordsOf(inputA))
        /\ XMLFmt /\ IsDocument(inputB)
                => summary.summary.totalA = Len(RecordsOf(inputA))

====
